---- MODULE Spec2Model ----
(***************************************************************************)
(* State-machine model of the FlorAI workspace (src/App.tsx, the Gemini    *)
(* service and the LuckyWheel component).                                  *)
(*                                                                         *)
(* Two components are modelled, which share no state:                      *)
(*   - the agent pipeline of App (agents, doc1, doc2, apiKey, error, the   *)
(*     activations of handleRunAgent / handleRunAllAgents and the remote   *)
(*     calls in flight);                                                   *)
(*   - the LuckyWheel modal (rotation, isSpinning, the pending timers).    *)
(*                                                                         *)
(* JavaScript runs one task at a time.  A handler runs atomically up to    *)
(* its first await; the code after an await runs as a microtask, before    *)
(* any further user event, timer or network completion.  The model keeps   *)
(* that order: while a microtask is pending (MicrotaskPending) no other    *)
(* action is enabled.                                                      *)
(***************************************************************************)
EXTENDS Integers, Sequences, FiniteSets, TLC

VARIABLES
  agents,      \* App state `agents`: the list of AgentConfig records
  error,       \* App state `error`: a message or Null
  doc1,        \* App state `doc1`
  doc2,        \* App state `doc2`
  apiKey,      \* App state `apiKey` (the user's key, '' when not given)
  envApiKey,   \* process.env.API_KEY of the build ('' when not defined)
  now,         \* the last value Date.now() returned
  runs,        \* activations of handleRunAgent that have not returned
  batches,     \* activations of handleRunAllAgents that have not returned
  nReq,        \* number of handleRunAgent invocations so far
  nBatch,      \* number of handleRunAllAgents invocations so far
  nOps,        \* number of user events of the analysis tab so far
  last,        \* the operation that produced the current state
  showWheel,   \* App state `showWheel`: the wheel modal is mounted
  wheelInst,   \* which LuckyWheel instance is mounted (0: none)
  rotation,    \* LuckyWheel state `rotation` of the mounted instance
  isSpinning,  \* LuckyWheel state `isSpinning` of the mounted instance
  spinTimers,  \* pending setTimeout(.., 4000) callbacks of spin, oldest first
  closeTimers, \* pending setTimeout(() => setShowWheel(false), 1500) callbacks
  theme,       \* App state `theme`, as an index into FLOWER_THEMES
  themes,      \* LuckyWheel prop `themes`, as the number of its entries
  nSpin,       \* number of accepted spins so far
  nMount       \* number of LuckyWheel instances mounted so far

agentVars == <<agents, error, doc1, doc2, apiKey, envApiKey, now, runs, batches,
               nReq, nBatch, nOps>>
wheelVars == <<showWheel, wheelInst, rotation, isSpinning, spinTimers,
               closeTimers, theme, themes, nSpin, nMount>>
vars == <<agentVars, wheelVars, last>>

(***************************************************************************)
(* Bounds of the model.                                                    *)
(***************************************************************************)
MaxAgents == 2
MaxOps == 3
MaxSpins == 2
MaxMounts == 2

(***************************************************************************)
(* Values.                                                                 *)
(***************************************************************************)
Undefined == "<undefined>"   \* a property that is absent (output?: string)
Null == "<null>"             \* null (error: string | null)

MissingKeyMessage == "API Key is missing. Please provide it in settings or environment."
NoOutputText == "No output generated."
NotAListMessage == "Invalid YAML format: Expected a list of agents."
ParseFailedMessage == "Failed to parse YAML: bad indentation"

Doc1Texts == {"", "A"}               \* texts typed into document 1
Doc2Texts == {"", "B"}               \* texts typed into document 2
KeyTexts == {"", "user-key"}         \* texts typed into the API key field
EnvKeys == {"", "env-key"}           \* process.env.API_KEY
ResponseTexts == {"", "reply"}       \* response.text of the remote model
FailureMessages == {"quota exceeded"} \* err.message of a rejected remote call

InitialAgent ==
  [id |-> 1, name |-> "Analyst 1", prompt |-> "Summarize the key points.",
   model |-> "gemini-2.5-flash", maxTokens |-> 500, temperature |-> "0.7",
   contextType |-> "both", isLoading |-> FALSE, output |-> Undefined]

NewAgent(t, n) ==
  [id |-> t, name |-> "Analyst " \o ToString(n), prompt |-> "",
   model |-> "gemini-2.5-flash", maxTokens |-> 1000, temperature |-> "0.7",
   contextType |-> "both", isLoading |-> FALSE, output |-> Undefined]

Ids(list) == {list[i].id : i \in DOMAIN list}

\* agents.find(a => a.id === id), as the index of the first match (0: none)
FindIndex(list, id) ==
  LET I == {i \in DOMAIN list : list[i].id = id}
  IN  IF I = {} THEN 0 ELSE CHOOSE i \in I : \A j \in I : i <= j

\* MarkLoading that keeps the stale output.
MarkLoadingKeepOutput(list, id) ==
  [i \in DOMAIN list |->
     IF list[i].id = id THEN [list[i] EXCEPT !.isLoading = TRUE] ELSE list[i]]

\* prev.map(a => a.id === id ? { ...a, isLoading: true, output: '' } : a)
MarkLoading(list, id) ==
  [i \in DOMAIN list |->
     IF list[i].id = id
       THEN [list[i] EXCEPT !.isLoading = TRUE, !.output = ""]
       ELSE list[i]]

\* StoreResult that writes the result to every task of the list.
StoreResultAll(list, id, result) ==
  [i \in DOMAIN list |->
     [list[i] EXCEPT !.isLoading = FALSE, !.output = result]]

\* prev.map(a => a.id === id ? { ...a, isLoading: false, output: result } : a)
StoreResult(list, id, result) ==
  [i \in DOMAIN list |->
     IF list[i].id = id
       THEN [list[i] EXCEPT !.isLoading = FALSE, !.output = result]
       ELSE list[i]]

\* ClearLoading that also drops the output.
ResetOnFailure(list, id) ==
  [i \in DOMAIN list |->
     IF list[i].id = id
       THEN [list[i] EXCEPT !.isLoading = FALSE, !.output = Undefined]
       ELSE list[i]]

\* prev.map(a => a.id === id ? { ...a, isLoading: false } : a)
ClearLoading(list, id) ==
  [i \in DOMAIN list |->
     IF list[i].id = id THEN [list[i] EXCEPT !.isLoading = FALSE] ELSE list[i]]

\* prev.filter(a => a.id !== id)
FilterOut(list, id) == SelectSeq(list, LAMBDA a : a.id # id)

\* ResolveContext with the two single-document cases exchanged.
ResolveContextSwapped(agent, d1, d2) ==
  IF agent.contextType = "doc1" THEN d2
  ELSE IF agent.contextType = "doc2" THEN d1
  ELSE "Document 1:\n" \o d1 \o "\n\nDocument 2:\n" \o d2

\* the context string handleRunAgent builds from agent.contextType
ResolveContext(agent, d1, d2) ==
  IF agent.contextType = "doc1" THEN d1
  ELSE IF agent.contextType = "doc2" THEN d2
  ELSE "Document 1:\n" \o d1 \o "\n\nDocument 2:\n" \o d2

\* getClient: userKey || process.env.API_KEY, which throws when both are empty
ClientKey(userKey) == IF userKey # "" THEN userKey ELSE envApiKey

\* the model alias handling of runGeminiAgent
ActualModel(modelId) ==
  IF modelId = "gemini-2.5-flash-thinking" THEN "gemini-2.5-flash" ELSE modelId

ThinkingBudget(modelId) ==
  IF modelId = "gemini-2.5-flash-thinking" THEN 1024 ELSE 0

\* the argument of ai.models.generateContent in runGeminiAgent
GenerateContentRequest(prompt, modelId, maxTokens, context) ==
  [model |-> ActualModel(modelId),
   contents |-> "Context:\n" \o context \o "\n\nTask:\n" \o prompt,
   maxOutputTokens |-> maxTokens,
   thinkingBudget |-> ThinkingBudget(modelId)]

\* return response.text || "No output generated."
ResultOf(text) == IF text = "" THEN NoOutputText ELSE text

\* The render closure a handler was created in: the values of the App state
\* that handleRunAgent and handleRunAllAgents read.
Closure == [agents |-> agents, doc1 |-> doc1, doc2 |-> doc2, apiKey |-> apiKey]

\* A promise continuation is queued: it runs before anything else.
MicrotaskPending ==
  \/ \E r \in runs : ~r.issued
  \/ \E b \in batches : b.stage = "loop"

InFlight == {r \in runs : r.issued}

(***************************************************************************)
(* Initial state: the state after App is first rendered.                   *)
(***************************************************************************)
FirstClock == 2

\* FLOWER_THEMES.length
NThemes == 20

\* The record kept in `last`: the operation, the agent id and the request
\* (or batch, or wheel instance) it was about, the text the remote side
\* answered with, and the file an upload read.
NoFile == [kind |-> "none", items |-> <<>>]

LastOf(op, id, req, text, file) ==
  [op |-> op, id |-> id, req |-> req, text |-> text, file |-> file]

Last(op, id, req) == LastOf(op, id, req, "", NoFile)

InitAgents ==
  /\ agents = <<InitialAgent>>
  /\ error = Null
  /\ doc1 = ""
  /\ doc2 = ""
  /\ apiKey = ""
  /\ envApiKey \in EnvKeys
  /\ now = FirstClock
  /\ runs = {}
  /\ batches = {}
  /\ nReq = 0
  /\ nBatch = 0
  /\ nOps = 0
  /\ last = Last("init", 0, 0)

Init ==
  /\ InitAgents
  /\ showWheel = FALSE
  /\ wheelInst = 0
  /\ rotation = 0
  /\ isSpinning = FALSE
  /\ spinTimers = <<>>
  /\ closeTimers = 0
  /\ theme = 0
  /\ themes = NThemes
  /\ nSpin = 0
  /\ nMount = 0

(***************************************************************************)
(* handleRunAgent(id), from its call to its await.  cl is the closure the  *)
(* handler reads agents, doc1, doc2 and apiKey from; b is the batch that   *)
(* called it and pos the position in that batch's list (0: the Execute     *)
(* Agent button).  The setAgents updaters run on the current list.         *)
(* getClient throws before any request is made when no key is available:   *)
(* the activation then has issued = FALSE and its catch block is the next  *)
(* microtask.                                                              *)
(***************************************************************************)
handleRunAgent(id, cl, b, pos) ==
  LET i == FindIndex(cl.agents, id)
  IN  /\ nReq' = nReq + 1
      /\ IF i = 0
           THEN UNCHANGED <<agents, error, runs>>
           ELSE LET agent == cl.agents[i]
                    context == ResolveContext(agent, cl.doc1, cl.doc2)
                IN  /\ agents' = MarkLoading(agents, id)
                    /\ error' = Null
                    /\ runs' = runs \cup
                         {[req |-> nReq + 1, id |-> id, batch |-> b, pos |-> pos,
                           key |-> ClientKey(cl.apiKey),
                           issued |-> ClientKey(cl.apiKey) # "",
                           calls |-> IF ClientKey(cl.apiKey) # "" THEN 1 ELSE 0,
                           request |-> GenerateContentRequest(
                                         agent.prompt, agent.model,
                                         agent.maxTokens, context),
                           agent |-> agent, doc1 |-> cl.doc1, doc2 |-> cl.doc2]}

\* The Execute Agent button of the i-th card (disabled while agent.isLoading).
RunAgentClick(i) ==
  /\ ~MicrotaskPending
  /\ nOps < MaxOps
  /\ i \in DOMAIN agents
  /\ ~agents[i].isLoading
  /\ handleRunAgent(agents[i].id, Closure, 0, 0)
  /\ nOps' = nOps + 1
  /\ last' = Last("handleRunAgent", agents[i].id, nReq + 1)
  /\ UNCHANGED <<doc1, doc2, apiKey, envApiKey, now, batches, nBatch>>
  /\ UNCHANGED wheelVars

\* The Run All Agents button (never disabled): handleRunAllAgents starts
\* iterating the agents of its closure.
RunAllClick ==
  /\ ~MicrotaskPending
  /\ nOps < MaxOps
  /\ nOps' = nOps + 1
  /\ nBatch' = nBatch + 1
  /\ batches' = batches \cup
       {[b |-> nBatch + 1, agents |-> agents, doc1 |-> doc1, doc2 |-> doc2,
         apiKey |-> apiKey, idx |-> 1, stage |-> "loop", awaiting |-> 0,
         results |-> <<>>]}
  /\ last' = Last("handleRunAllAgents", 0, 0)
  /\ UNCHANGED <<agents, error, doc1, doc2, apiKey, envApiKey, now, runs, nReq>>
  /\ UNCHANGED wheelVars

\* AwaitRun without the await: the loop goes on while the activation runs.
NoAwaitRun(b, req) == [b EXCEPT !.idx = @ + 1]

\* `await handleRunAgent(agent.id)`: the loop is suspended until the
\* activation req returns.
AwaitRun(b, req) == [b EXCEPT !.stage = "await", !.awaiting = req]

\* One iteration of `for (const agent of agents)`.
BatchNext(b) ==
  /\ b \in batches
  /\ b.stage = "loop"
  /\ b.idx <= Len(b.agents)
  /\ handleRunAgent(b.agents[b.idx].id, b, b.b, b.idx)
  /\ batches' = (batches \ {b}) \cup
       {IF FindIndex(b.agents, b.agents[b.idx].id) = 0
          THEN [b EXCEPT !.idx = @ + 1]
          ELSE AwaitRun(b, nReq + 1)}
  /\ last' = Last("handleRunAgent", b.agents[b.idx].id, nReq + 1)
  /\ UNCHANGED <<doc1, doc2, apiKey, envApiKey, now, nBatch, nOps>>
  /\ UNCHANGED wheelVars

\* The loop of handleRunAllAgents is exhausted: the handler returns.
BatchEnd(b) ==
  /\ b \in batches
  /\ b.stage = "loop"
  /\ b.idx > Len(b.agents)
  /\ batches' = batches \ {b}
  /\ last' = Last("batchEnd", 0, b.b)
  /\ UNCHANGED <<agents, error, doc1, doc2, apiKey, envApiKey, now, runs, nReq,
                 nBatch, nOps>>
  /\ UNCHANGED wheelVars

\* handleRunAgent returned: the batch that awaits it goes on with its loop.
\* `results` records what each awaited activation ended with.
Resume(r, ok, result) ==
  {IF b.b = r.batch /\ b.stage = "await" /\ b.awaiting = r.req
     THEN [b EXCEPT !.stage = "loop", !.idx = @ + 1, !.awaiting = 0,
                    !.results = Append(@, [id |-> r.id, ok |-> ok,
                                           result |-> result])]
     ELSE b : b \in batches}

\* try-block, after the await: the remote call returned response.text = text.
RemoteResolve(r, text) ==
  /\ ~MicrotaskPending
  /\ r \in InFlight
  /\ agents' = StoreResult(agents, r.id, ResultOf(text))
  /\ runs' = runs \ {r}
  /\ batches' = Resume(r, TRUE, ResultOf(text))
  /\ last' = LastOf("resolved", r.id, r.req, text, NoFile)
  /\ UNCHANGED <<error, doc1, doc2, apiKey, envApiKey, now, nReq, nBatch, nOps>>
  /\ UNCHANGED wheelVars

\* A catch block that issues the remote call once more before giving up.
CatchAndRetry(r, message) ==
  /\ error' = message
  /\ IF r.calls = 1
       THEN /\ runs' = (runs \ {r}) \cup {[r EXCEPT !.calls = 2]}
            /\ UNCHANGED <<agents, batches>>
       ELSE /\ agents' = ClearLoading(agents, r.id)
            /\ runs' = runs \ {r}
            /\ batches' = Resume(r, FALSE, message)
  /\ last' = LastOf("caught", r.id, r.req, message, NoFile)
  /\ UNCHANGED <<doc1, doc2, apiKey, envApiKey, now, nReq, nBatch, nOps>>
  /\ UNCHANGED wheelVars

\* A catch block that does not report the failure.
CatchSilently(r, message) ==
  /\ agents' = ClearLoading(agents, r.id)
  /\ runs' = runs \ {r}
  /\ batches' = Resume(r, FALSE, message)
  /\ last' = LastOf("caught", r.id, r.req, message, NoFile)
  /\ UNCHANGED <<error, doc1, doc2, apiKey, envApiKey, now, nReq, nBatch, nOps>>
  /\ UNCHANGED wheelVars

\* catch (err): setError(err.message); isLoading: false
CatchFailure(r, message) ==
  /\ error' = message
  /\ agents' = ClearLoading(agents, r.id)
  /\ runs' = runs \ {r}
  /\ batches' = Resume(r, FALSE, message)
  /\ last' = LastOf("caught", r.id, r.req, message, NoFile)
  /\ UNCHANGED <<doc1, doc2, apiKey, envApiKey, now, nReq, nBatch, nOps>>
  /\ UNCHANGED wheelVars

\* The remote call was rejected (quota, network, malformed request).
RemoteReject(r, message) ==
  /\ ~MicrotaskPending
  /\ r \in InFlight
  /\ CatchFailure(r, message)

\* getClient threw: the catch block runs as the next microtask.
MissingKeyCatch(r) ==
  /\ r \in runs
  /\ ~r.issued
  /\ CatchFailure(r, MissingKeyMessage)

(***************************************************************************)
(* Editing operations of the analysis tab.  Each is a user event, so none  *)
(* runs while a microtask is pending.                                      *)
(***************************************************************************)
ConfigStep(op, id, file) ==
  /\ ~MicrotaskPending
  /\ nOps < MaxOps
  /\ nOps' = nOps + 1
  /\ last' = LastOf(op, id, 0, "", file)
  /\ UNCHANGED <<envApiKey, runs, batches, nReq, nBatch>>
  /\ UNCHANGED wheelVars

\* The add button: setAgents([...agents, { id: Date.now(), ... }])
AddAgent(t) ==
  /\ Len(agents) < MaxAgents
  /\ t \in {now, now + 1}
  /\ ConfigStep("addAgent", t, NoFile)
  /\ now' = t
  /\ agents' = Append(agents, NewAgent(t, Len(agents) + 1))
  /\ UNCHANGED <<error, doc1, doc2, apiKey>>

\* The trash button of the i-th card.
RemoveAgent(i) ==
  /\ i \in DOMAIN agents
  /\ ConfigStep("removeAgent", agents[i].id, NoFile)
  /\ agents' = FilterOut(agents, agents[i].id)
  /\ UNCHANGED <<error, doc1, doc2, apiKey, now>>

\* prev.map(a => a.id === agent.id ? { ...a, [field]: value } : a)
SetField(list, id, field, value) ==
  [i \in DOMAIN list |->
     IF list[i].id = id THEN [list[i] EXCEPT ![field] = value] ELSE list[i]]

EditChoices ==
  {<<"model", "gemini-2.5-flash-thinking">>, <<"contextType", "doc1">>,
   <<"prompt", "Compare.">>}

\* The inputs of the i-th card (name, model, contextType, maxTokens, prompt).
EditAgent(i, field, value) ==
  /\ i \in DOMAIN agents
  /\ agents[i][field] # value
  /\ ConfigStep("editAgent", agents[i].id, NoFile)
  /\ agents' = SetField(agents, agents[i].id, field, value)
  /\ UNCHANGED <<error, doc1, doc2, apiKey, now>>

\* The textarea of document 1.
SetDoc1(text) ==
  /\ text # doc1
  /\ ConfigStep("setDoc1", 0, NoFile)
  /\ doc1' = text
  /\ UNCHANGED <<agents, error, doc2, apiKey, now>>

\* The textarea of document 2.
SetDoc2(text) ==
  /\ text # doc2
  /\ ConfigStep("setDoc2", 0, NoFile)
  /\ doc2' = text
  /\ UNCHANGED <<agents, error, doc1, apiKey, now>>

\* The API key field of the settings modal.
SetApiKey(text) ==
  /\ text # apiKey
  /\ ConfigStep("setApiKey", 0, NoFile)
  /\ apiKey' = text
  /\ UNCHANGED <<agents, error, doc1, doc2, now>>

\* The X of the error banner: setError(null)
DismissError ==
  /\ error # Null
  /\ ConfigStep("dismissError", 0, NoFile)
  /\ error' = Null
  /\ UNCHANGED <<agents, doc1, doc2, apiKey, now>>

(***************************************************************************)
(* uploadAgents.  A file is modelled by what yaml.load makes of its text:  *)
(* a sequence (of agent records), a mapping, a scalar, or a parse error.   *)
(***************************************************************************)
FileAgent(id, ct, loading, out) ==
  [id |-> id, name |-> "Imported", prompt |-> "Translate.",
   model |-> "gemini-2.5-flash-thinking", maxTokens |-> 100, temperature |-> "0.2",
   contextType |-> ct, isLoading |-> loading, output |-> out]

Files ==
  { [kind |-> "seq", items |-> <<>>],
    [kind |-> "seq", items |-> <<FileAgent(1, "doc1", FALSE, Undefined),
                                 FileAgent(2, "doc2", FALSE, Undefined)>>],
    [kind |-> "seq", items |-> <<FileAgent(2, "doc1", FALSE, Undefined),
                                 FileAgent(2, "doc2", TRUE, "old")>>],
    [kind |-> "map", items |-> <<>>],
    [kind |-> "error", items |-> <<>>] }

\* yaml.load throws on text that is not YAML
yamlLoadThrows(file) == file.kind = "error"

\* Array.isArray(loaded)
IsArray(file) == file.kind = "seq"

\* uploadAgents that appends the loaded agents to the existing list.
uploadAgentsMerge(file) ==
  /\ ConfigStep("uploadAgents", 0, file)
  /\ IF yamlLoadThrows(file)
       THEN /\ error' = ParseFailedMessage
            /\ UNCHANGED agents
       ELSE IF IsArray(file)
         THEN /\ agents' = agents \o file.items
              /\ error' = Null
         ELSE /\ error' = NotAListMessage
              /\ UNCHANGED agents
  /\ UNCHANGED <<doc1, doc2, apiKey, now>>

\* reader.onload of uploadAgents
uploadAgents(file) ==
  /\ ConfigStep("uploadAgents", 0, file)
  /\ IF yamlLoadThrows(file)
       THEN /\ error' = ParseFailedMessage
            /\ UNCHANGED agents
       ELSE IF IsArray(file)
         THEN /\ agents' = file.items
              /\ error' = Null
         ELSE /\ error' = NotAListMessage
              /\ UNCHANGED agents
  /\ UNCHANGED <<doc1, doc2, apiKey, now>>

(***************************************************************************)
(* The agent pipeline.                                                     *)
(***************************************************************************)
Execute ==
  \/ \E i \in 1..MaxAgents : RunAgentClick(i)
  \/ RunAllClick
  \/ \E b \in batches : BatchNext(b)
  \/ \E b \in batches : BatchEnd(b)
  \/ \E r \in runs, text \in ResponseTexts : RemoteResolve(r, text)
  \/ \E r \in runs, message \in FailureMessages : RemoteReject(r, message)
  \/ \E r \in runs : MissingKeyCatch(r)

Configure ==
  \/ \E t \in {now, now + 1} : AddAgent(t)
  \/ \E i \in 1..MaxAgents : RemoveAgent(i)
  \/ \E i \in 1..MaxAgents, c \in EditChoices : EditAgent(i, c[1], c[2])
  \/ \E text \in Doc1Texts : SetDoc1(text)
  \/ \E text \in Doc2Texts : SetDoc2(text)
  \/ \E text \in KeyTexts : SetApiKey(text)
  \/ DismissError
  \/ \E file \in Files : uploadAgents(file)

Next == Execute \/ Configure

Spec == Init /\ [][Next]_vars

(***************************************************************************)
(* One batch on its own: the list is set up, Run All is requested once     *)
(* when nothing is running, and until the batch returns only its remote    *)
(* calls complete.                                                         *)
(***************************************************************************)
NextBatch ==
  \/ nBatch = 0 /\ Configure
  \/ nBatch = 0 /\ \E i \in 1..MaxAgents : RunAgentClick(i)
  \/ nBatch = 0 /\ runs = {} /\ RunAllClick
  \/ \E b \in batches : BatchNext(b)
  \/ \E b \in batches : BatchEnd(b)
  \/ \E r \in runs, text \in ResponseTexts : RemoteResolve(r, text)
  \/ \E r \in runs, message \in FailureMessages : RemoteReject(r, message)
  \/ \E r \in runs : MissingKeyCatch(r)

SpecBatch == Init /\ [][NextBatch]_vars

(***************************************************************************)
(* Executions started through Run All only: agents are added, the key is   *)
(* set, and Run All is requested any number of times.                      *)
(***************************************************************************)
NextRunAll ==
  \/ \E t \in {now, now + 1} : AddAgent(t)
  \/ \E text \in KeyTexts : SetApiKey(text)
  \/ RunAllClick
  \/ \E b \in batches : BatchNext(b)
  \/ \E b \in batches : BatchEnd(b)
  \/ \E r \in runs, text \in ResponseTexts : RemoteResolve(r, text)
  \/ \E r \in runs, message \in FailureMessages : RemoteReject(r, message)
  \/ \E r \in runs : MissingKeyCatch(r)

SpecRunAll == Init /\ [][NextRunAll]_vars

(***************************************************************************)
(* The LuckyWheel modal.  The component is mounted while showWheel holds   *)
(* and loses its state when the modal closes; the timeouts it started stay *)
(* pending.  Angles are whole degrees.                                     *)
(***************************************************************************)
\* Extra rotations of a spin that may take a single turn.
ExtraDegreesShort == {360, 1800}

\* extraSpins * 360 with extraSpins = 5 + Math.random() * 5, in [1800, 3600)
ExtraDegrees == {1800, 1980, 3599}

\* every whole-degree value of extraSpins * 360
ExtraRange == 1800 .. 3599

\* Math.random() * 360, in [0, 360)
OffsetDegrees == {0, 90, 359}

\* An index that counts the full turns instead of dropping them.
WinningIndexByTurns(totalRotation, n) ==
  (totalRotation \div 360) % n

\* An index rounded to the nearest slice instead of Math.floor.
WinningIndexRounded(totalRotation, n) ==
  ((((360 - (totalRotation % 360)) % 360) * n) + 180) \div 360

\* The index computation without the outer `% 360`.
WinningIndexNoWrap(totalRotation, n) ==
  ((360 - (totalRotation % 360)) * n) \div 360

\* Math.floor(((360 - totalRotation % 360) % 360) / (360 / n))
WinningIndex(totalRotation, n) ==
  (((360 - (totalRotation % 360)) % 360) * n) \div 360

WheelStep(op, id, inst) ==
  /\ last' = Last(op, id, inst)
  /\ UNCHANGED agentVars

\* The palette button of the header: setShowWheel(true) mounts a LuckyWheel.
OpenWheel ==
  /\ ~showWheel
  /\ nMount < MaxMounts
  /\ WheelStep("openWheel", 0, nMount + 1)
  /\ showWheel' = TRUE
  /\ nMount' = nMount + 1
  /\ wheelInst' = nMount + 1
  /\ rotation' = 0
  /\ isSpinning' = FALSE
  /\ UNCHANGED <<spinTimers, closeTimers, theme, themes, nSpin>>

\* setShowWheel(false): the modal and its LuckyWheel are unmounted.
Unmount ==
  /\ showWheel' = FALSE
  /\ wheelInst' = 0
  /\ rotation' = 0
  /\ isSpinning' = FALSE

\* The X button of the modal.
CloseWheel ==
  /\ showWheel
  /\ WheelStep("closeWheel", 0, wheelInst)
  /\ Unmount
  /\ UNCHANGED <<spinTimers, closeTimers, theme, themes, nSpin, nMount>>

\* A spin without its guard.
NeverRejected == FALSE

\* if (isSpinning) return;
SpinRejected == isSpinning

\* LuckyWheel.spin, called on the mounted instance.
spin ==
  /\ showWheel
  /\ IF SpinRejected
       THEN /\ WheelStep("spinRejected", 0, wheelInst)
            /\ UNCHANGED wheelVars
       ELSE /\ nSpin < MaxSpins
            /\ \E extra \in ExtraDegrees, randomOffset \in OffsetDegrees :
                 LET totalRotation == rotation + extra + randomOffset
                 IN  /\ rotation' = totalRotation
                     /\ spinTimers' = Append(spinTimers,
                          [inst |-> wheelInst, rotation |-> rotation,
                           extra |-> extra, randomOffset |-> randomOffset,
                           totalRotation |-> totalRotation])
            /\ isSpinning' = TRUE
            /\ nSpin' = nSpin + 1
            /\ WheelStep("spin", 0, wheelInst)
            /\ UNCHANGED <<showWheel, wheelInst, closeTimers, theme, themes, nMount>>

\* The setTimeout callback of spin (4000 ms): setIsSpinning(false) on the
\* instance that started it, then onSelect(themes[index]) of App, which sets
\* the theme and starts the 1500 ms timer that closes the modal.
SpinTimeout ==
  /\ spinTimers # <<>>
  /\ LET t == Head(spinTimers)
         index == WinningIndex(t.totalRotation, themes)
     IN  /\ isSpinning' = IF t.inst = wheelInst THEN FALSE ELSE isSpinning
         /\ theme' = index
         /\ WheelStep("onSelect", index, t.inst)
  /\ spinTimers' = Tail(spinTimers)
  /\ closeTimers' = closeTimers + 1
  /\ UNCHANGED <<showWheel, wheelInst, rotation, themes, nSpin, nMount>>

\* setTimeout(() => setShowWheel(false), 1500)
CloseTimeout ==
  /\ closeTimers > 0
  /\ closeTimers' = closeTimers - 1
  /\ WheelStep("closeTimeout", 0, wheelInst)
  /\ Unmount
  /\ UNCHANGED <<spinTimers, theme, themes, nSpin, nMount>>

NextWheel ==
  \/ OpenWheel
  \/ CloseWheel
  \/ spin
  \/ SpinTimeout
  \/ CloseTimeout

SpecWheel == Init /\ [][NextWheel]_vars

(***************************************************************************)
(* The LuckyWheel component on its own, for a `themes` prop of any size:   *)
(* one mounted wheel that is spun and resolves.                            *)
(***************************************************************************)
MaxThemes == 20

InitSpin ==
  /\ InitAgents
  /\ showWheel = TRUE
  /\ wheelInst = 1
  /\ rotation = 0
  /\ isSpinning = FALSE
  /\ spinTimers = <<>>
  /\ closeTimers = 0
  /\ theme = 0
  /\ themes \in 1 .. MaxThemes
  /\ nSpin = 0
  /\ nMount = 1

\* the modal stays open: the 1500 ms timers are left pending
NextSpin ==
  \/ spin
  \/ SpinTimeout

SpecSpin == InitSpin /\ [][NextSpin]_vars

(***************************************************************************)
(* The resolution of a spin as a function of (totalRotation, themes): a    *)
(* wheel whose spin is about to resolve, for every size of `themes` and    *)
(* every whole-degree offset.                                              *)
(***************************************************************************)
\* Math.random() * 360 in whole degrees: every value of [0, 360)
WholeDegrees == 0 .. 359

\* the rotation of a wheel before a spin: 0, or the total of earlier spins
PreviousRotations == {0, 1890, 7557}

InitIndex ==
  /\ InitAgents
  /\ showWheel = TRUE
  /\ wheelInst = 1
  /\ isSpinning = TRUE
  /\ closeTimers = 0
  /\ theme = 0
  /\ themes \in 1 .. MaxThemes
  /\ nSpin = 1
  /\ nMount = 1
  /\ \E previous \in PreviousRotations, extra \in ExtraDegrees,
        randomOffset \in WholeDegrees :
       LET totalRotation == previous + extra + randomOffset
       IN  /\ rotation = totalRotation
           /\ spinTimers = <<[inst |-> 1, rotation |-> previous,
                              extra |-> extra, randomOffset |-> randomOffset,
                              totalRotation |-> totalRotation]>>

NextIndex == SpinTimeout

SpecIndex == InitIndex /\ [][NextIndex]_vars

(***************************************************************************)
(* Properties.                                                             *)
(***************************************************************************)
\* the positions of the tasks with this id
Holders(list, id) == {i \in DOMAIN list : list[i].id = id}

\* the activations of handleRunAgent a batch has started and not got back
RunsOfBatch(b) == {r \in runs : r.batch = b.b}

\* C1: within one handleRunAllAgents run the tasks are executed in the order
\* of the list, and the activation for position k+1 is started only after the
\* k activations before it have returned: a batch has at most one activation
\* (and so at most one remote call) outstanding, it is the one for the current
\* position of its list, and exactly the positions before it have results.
C1_BatchSequential ==
  /\ \A b \in batches :
       /\ Cardinality(RunsOfBatch(b)) <= 1
       /\ Len(b.results) = b.idx - 1
       /\ \A k \in DOMAIN b.results : b.results[k].id = b.agents[k].id
       /\ \A r \in RunsOfBatch(b) :
            /\ b.stage = "await"
            /\ r.pos = b.idx
            /\ r.id = b.agents[b.idx].id
  /\ \A r \in runs : r.batch # 0 => \E b \in batches : b.b = r.batch

\* C1 witness: the call of the second task of a batch is in flight, after the
\* first has resolved.
C1_Witness ==
  \E b \in batches : \E r \in InFlight :
    r.batch = b.b /\ r.pos = 2 /\ Len(b.results) = 1

\* C2 (as stated): when a batch that ran on its own has gone through its
\* list, every task was attempted in order, no task is loading, every task
\* whose call succeeded holds the text its call returned and every task
\* whose call failed has no output.
C2_BatchOutcome ==
  \A b \in batches :
    (b.stage = "loop" /\ b.idx > Len(b.agents)) =>
      /\ Len(agents) = Len(b.results)
      /\ \A k \in DOMAIN agents :
           /\ b.results[k].id = agents[k].id
           /\ ~agents[k].isLoading
           /\ b.results[k].ok => agents[k].output = b.results[k].result
           /\ ~b.results[k].ok => agents[k].output \in {"", Undefined}

\* C3 (as stated): with executions started through Run All only, at most one
\* task is loading and at most one remote call is in flight.
C3_AtMostOneRunning ==
  /\ Cardinality({i \in DOMAIN agents : agents[i].isLoading}) <= 1
  /\ Cardinality(InFlight) <= 1

\* a step of handleRunAgent, called for the id last'.id
RunAgentStep == last'.op = "handleRunAgent" /\ last'.req = nReq + 1

\* C4, first half: handleRunAgent on a task of the list marks it loading and
\* clears its output in the step that issues the remote call.
C4_Start ==
  (RunAgentStep /\ last'.id \in Ids(agents)) =>
    /\ \E r \in runs' \ runs : r.req = last'.req /\ r.id = last'.id
    /\ \A i \in Holders(agents', last'.id) :
         agents'[i].isLoading /\ agents'[i].output = ""

\* C4 (as stated): when the remote call succeeds the output of the task is
\* exactly the text the remote model returned, and the task is not loading.
C4_ExactText ==
  [][/\ C4_Start
     /\ last'.op = "resolved" =>
          \A i \in Holders(agents, last'.id) :
            agents'[i].output = last'.text /\ ~agents'[i].isLoading]_vars

\* C4 (amended): when the remote call succeeds the output of the task is the
\* text the remote model returned, or "No output generated." when that text
\* is empty, and the task is not loading.
C4_TextOrPlaceholder ==
  [][/\ C4_Start
     /\ last'.op = "resolved" =>
          \A i \in Holders(agents, last'.id) :
            /\ agents'[i].output =
                 IF last'.text = "" THEN "No output generated." ELSE last'.text
            /\ ~agents'[i].isLoading]_vars

\* C4 witness: a call has returned the empty text and its task shows the
\* placeholder.
C4_Witness ==
  /\ last.op = "resolved"
  /\ last.text = ""
  /\ \E i \in Holders(agents, last.id) :
       agents[i].output = "No output generated." /\ ~agents[i].isLoading

\* C5: when the call of handleRunAgent fails (a rejected remote call, or no
\* API key), the catch block leaves the output of the task as it is, sets
\* isLoading to false, sets `error` to the message of the failure, and starts
\* no further call.
C5_FailureHandler ==
  [][last'.op = "caught" =>
       /\ \A i \in Holders(agents, last'.id) :
            agents'[i].output = agents[i].output /\ ~agents'[i].isLoading
       /\ error' = last'.text
       /\ \A r \in runs \ runs' :
            error' = IF r.issued THEN last'.text ELSE MissingKeyMessage
       /\ Cardinality(runs \ runs') = 1
       /\ runs' \subseteq runs
       /\ nReq' = nReq]_vars

\* C5 witness: a call has failed on a task that another run had given an
\* output in the meantime; the output is still there.
C5_Witness ==
  /\ last.op = "caught"
  /\ error = last.text
  /\ \E i \in Holders(agents, last.id) :
       agents[i].output = "reply" /\ ~agents[i].isLoading

\* what C6 says a request carries, but for the model id
C6_Carries(r) ==
  /\ r.request.contents =
       "Context:\n" \o ResolveContext(r.agent, r.doc1, r.doc2)
         \o "\n\nTask:\n" \o r.agent.prompt
  /\ r.request.maxOutputTokens = r.agent.maxTokens

\* C6 (as stated): every activation of handleRunAgent on a task it found has
\* made exactly one remote invocation, never none and never a second, with
\* the prompt, model id, maxOutputTokens and context of the task.
C6_ExactlyOne ==
  \A r \in runs :
    /\ r.calls = 1
    /\ C6_Carries(r)
    /\ r.request.model = r.agent.model

\* C6 (amended): every activation of handleRunAgent on a task it found has
\* made one remote invocation when an API key is available and none when no
\* key is available, never a second; the invocation carries the prompt,
\* maxOutputTokens and context of the task and its model id, with the alias
\* gemini-2.5-flash-thinking sent as gemini-2.5-flash with a thinking budget.
C6_OneIfKey ==
  /\ \A r \in runs :
       /\ r.calls = IF r.key # "" THEN 1 ELSE 0
       /\ r.issued <=> r.calls = 1
       /\ C6_Carries(r)
       /\ r.request.model =
            IF r.agent.model = "gemini-2.5-flash-thinking"
              THEN "gemini-2.5-flash" ELSE r.agent.model
       /\ r.request.thinkingBudget > 0
            <=> r.agent.model = "gemini-2.5-flash-thinking"
  /\ \A r1, r2 \in runs : r1.req = r2.req => r1 = r2
  /\ \A r \in runs : r.req <= nReq

\* C6 witness: an activation without an API key, which made no invocation.
C6_Witness == \E r \in runs : r.key = "" /\ r.calls = 0 /\ ~r.issued

\* C7 (as stated): handleRunAgent for an id that is not in the current list
\* issues no call and changes nothing.
C7_NoOpWhenMissing ==
  [][(RunAgentStep /\ last'.id \notin Ids(agents)) =>
       UNCHANGED <<agents, error, doc1, doc2, runs>>]_vars

\* the context C8 states for a contextType
C8_Expected(contextType, d1, d2) ==
  CASE contextType = "doc1" -> d1
    [] contextType = "doc2" -> d2
    [] contextType = "both" ->
         "Document 1:\n" \o d1 \o "\n\nDocument 2:\n" \o d2

\* C8: the context a call carries is doc1 verbatim for doc1, doc2 verbatim for
\* doc2, and "Document 1:\n" + doc1 + "\n\nDocument 2:\n" + doc2 for both,
\* where doc1 and doc2 are the documents the handler reads (for the Execute
\* Agent button, the documents on screen).
C8_Context ==
  /\ [](\A r \in runs :
          r.agent.contextType \in {"doc1", "doc2", "both"} =>
            r.request.contents =
              "Context:\n" \o C8_Expected(r.agent.contextType, r.doc1, r.doc2)
                \o "\n\nTask:\n" \o r.agent.prompt)
  /\ [][\A r \in runs' \ runs :
          r.batch = 0 =>
            /\ r.doc1 = doc1
            /\ r.doc2 = doc2
            /\ r.agent = agents[FindIndex(agents, r.id)]]_vars

\* C8 witness: a call for a task with contextType both, on doc1 = "A" and
\* doc2 = "B".
C8_Witness ==
  \E r \in InFlight :
    /\ r.agent.contextType = "both"
    /\ r.doc1 = "A"
    /\ r.doc2 = "B"
    /\ r.request.contents =
         "Context:\nDocument 1:\nA\n\nDocument 2:\nB\n\nTask:\n" \o r.agent.prompt

\* C9: uploadAgents is all-or-nothing: a file that parses to a sequence
\* replaces the list by exactly that sequence and clears the error; any other
\* file leaves the list as it is and sets the error.
C9_ImportAllOrNothing ==
  [][last'.op = "uploadAgents" =>
       IF last'.file.kind = "seq"
         THEN agents' = last'.file.items /\ error' = Null
         ELSE /\ agents' = agents
              /\ error' = IF last'.file.kind = "error"
                            THEN ParseFailedMessage ELSE NotAListMessage
              /\ error' # Null]_vars

\* C9 witness: a list of two agents has replaced the list.
C9_Witness ==
  /\ last.op = "uploadAgents"
  /\ last.file.kind = "seq"
  /\ Len(last.file.items) = 2
  /\ agents = last.file.items
  /\ error = Null

\* C10: spin called while isSpinning is true changes nothing: rotation and
\* isSpinning are as before and no timer is added.
C10_SpinWhileSpinning ==
  [][(isSpinning /\ last'.op \in {"spin", "spinRejected"}) =>
       UNCHANGED wheelVars]_vars

\* C10 witness: spin has been called during a spin and was rejected.
C10_Witness ==
  /\ last.op = "spinRejected"
  /\ isSpinning
  /\ Len(spinTimers) = 1

\* C11: the resolution of a spin is a function of (cumulative rotation, N)
\* only: the index handed to onSelect is floor(x / (360/N)) with
\* x = (360 - (cumulative mod 360)) mod 360, that is the k with
\* k * (360/N) <= x < (k+1) * (360/N); it lies in 0..N-1 for every N >= 1 and
\* every cumulative rotation; N = 1 gives 0; N = 4 with 1890 gives 3.
C11_Resolution ==
  [][last'.op = "onSelect" =>
       LET cumulative == Head(spinTimers).totalRotation
           x == (360 - (cumulative % 360)) % 360
       IN  /\ theme' \in 0 .. (themes - 1)
           /\ theme' * 360 <= x * themes
           /\ x * themes < (theme' + 1) * 360
           /\ themes = 1 => theme' = 0
           /\ (themes = 4 /\ cumulative = 1890) => theme' = 3]_vars

\* C11 witness: a wheel of 4 outcomes at 1890 degrees has resolved to 3.
C11_Witness ==
  /\ last.op = "onSelect"
  /\ themes = 4
  /\ rotation = 1890
  /\ theme = 3

\* the index a pending spin would resolve to had it drawn `extra`
IndexWith(t, extra) ==
  WinningIndex(t.rotation + extra + t.randomOffset, themes)

OffsetsSelecting(t, i) ==
  {randomOffset \in WholeDegrees :
     WinningIndex(t.rotation + t.extra + randomOffset, themes) = i}

\* C13: uniform selection in whole degrees: for the previous rotation and the
\* extra turns of a spin, and N dividing 360, each index of 0..N-1 is selected
\* by exactly 360/N of the offsets 0..359 (and the offset drawn is one of
\* them).
C13_Uniform ==
  (last.op = "spin" /\ 360 % themes = 0) =>
    LET t == spinTimers[Len(spinTimers)]
    IN  /\ t.randomOffset \in WholeDegrees
        /\ \A i \in 0 .. (themes - 1) :
             Cardinality(OffsetsSelecting(t, i)) = 360 \div themes

\* C13 witness: a wheel of 20 outcomes has been spun a second time, from the
\* rotation the first spin left.
C13_Witness ==
  /\ last.op = "spin"
  /\ themes = NThemes
  /\ nSpin = 2
  /\ spinTimers[Len(spinTimers)].rotation >= 1800
  /\ Cardinality(OffsetsSelecting(spinTimers[Len(spinTimers)], 7)) = 18

\* C14: between an accepted spin and its resolution isSpinning is true: while
\* a resolution is pending, the wheel on screen shows isSpinning.
C14_SpinningUntilResolved ==
  (spinTimers # <<>> /\ showWheel) => isSpinning

\* C15: at most one resolution timer is pending in every reachable state,
\* also after the modal was closed and reopened, so that onSelect never fires
\* for a spin older than the one started last.
C15_OneTimerPending ==
  /\ Len(spinTimers) <= 1
  /\ last.op = "onSelect" => spinTimers = <<>>

\* C16: the rotation of one wheel instance never decreases: a new instance
\* starts at 0, an accepted spin adds at least 5 * 360 degrees, and every
\* other step on the instance (a rejected spin, a resolution) leaves the
\* rotation as it is.
C16_RotationMonotone ==
  [][/\ (wheelInst' # 0 /\ wheelInst' # wheelInst) => rotation' = 0
     /\ (wheelInst' # 0 /\ wheelInst' = wheelInst) =>
          /\ rotation' >= rotation
          /\ last'.op = "spin" => rotation' >= rotation + (5 * 360)
          /\ last'.op # "spin" => rotation' = rotation]_vars

\* C16 witness: one wheel instance has been spun twice.
C16_Witness ==
  /\ last.op = "spin"
  /\ wheelInst = 1
  /\ nSpin = 2
  /\ rotation >= 2 * (5 * 360)

\* C17: task ids are unique: in every reachable state no two tasks of the
\* list have the same id.
C17_UniqueIds ==
  \A i, j \in DOMAIN agents : agents[i].id = agents[j].id => i = j

\* C18: while a remote call issued for a task is in flight, every task of the
\* list with that id has isLoading = true.
C18_LoadingWhileInFlight ==
  \A r \in InFlight : \A i \in Holders(agents, r.id) : agents[i].isLoading

\* the steps of handleRunAgent and handleRunAllAgents
ExecuteOps == {"handleRunAgent", "handleRunAllAgents", "batchEnd",
               "resolved", "caught"}

\* C19: every step of handleRunAgent(id) and handleRunAllAgents leaves doc1
\* and doc2 unchanged, keeps the length and the order of the list, changes no
\* task whose id differs from id, and on the tasks with that id changes
\* nothing but isLoading and output.
C19_Frame ==
  [][last'.op \in ExecuteOps =>
       /\ doc1' = doc1
       /\ doc2' = doc2
       /\ Len(agents') = Len(agents)
       /\ \A i \in DOMAIN agents :
            /\ agents'[i].id = agents[i].id
            /\ agents[i].id # last'.id => agents'[i] = agents[i]
            /\ agents'[i] = [agents[i] EXCEPT
                               !.isLoading = agents'[i].isLoading,
                               !.output = agents'[i].output]]_vars

\* C19 witness: with a document loaded and two tasks in the list, the call
\* of one task has resolved and stored its result, next to a task of another
\* id.
C19_Witness ==
  /\ last.op = "resolved"
  /\ doc1 # ""
  /\ Len(agents) = 2
  /\ \E i, j \in DOMAIN agents :
       /\ agents[i].id = last.id
       /\ agents[i].output = ResultOf(last.text)
       /\ agents[j].id # last.id
       /\ agents[j].output # agents[i].output

\* C20: a batch works on the list and the documents of the state in which
\* Run All was clicked: the activation for position k runs the k-th task of
\* that list, and its remote call carries that task's prompt, model,
\* maxTokens and context selector and the documents as they were then,
\* whatever was edited, added, removed or imported since.
C20_Snapshot ==
  \A b \in batches : \A r \in RunsOfBatch(b) :
    LET a == b.agents[r.pos]
    IN  /\ r.id = a.id
        /\ r.request = GenerateContentRequest(a.prompt, a.model, a.maxTokens,
                          ResolveContext(a, b.doc1, b.doc2))

\* C21: a task has isLoading = true only while an execution for its id is
\* under way: every loading task of the list has an activation of
\* handleRunAgent for its id that has not finished.
C21_LoadingOnlyInFlight ==
  \A i \in DOMAIN agents :
    agents[i].isLoading => \E r \in runs : r.id = agents[i].id

\* the last task of a batch failed
LastFailed(b) == b.results # <<>> /\ ~b.results[Len(b.results)].ok

\* every start of handleRunAgent on a task it finds resets the error, and
\* among the steps of an execution only a catch sets it, to its message
ErrorSetByFailureOnly ==
  /\ (last'.op = "handleRunAgent" /\ runs' # runs) => error' = Null
  /\ (last'.op \in ExecuteOps /\ error' # error /\ error' # Null) =>
       (last'.op = "caught" /\ error' = last'.text)

\* C22 (as stated): every start on a found task resets the error and only a
\* failing call sets it; when a batch that ran with nothing interleaved
\* ends, the error is shown exactly when its last task failed.
C22_LastTaskDecides ==
  [][/\ ErrorSetByFailureOnly
     /\ last'.op = "batchEnd" =>
          \A b \in batches \ batches' : (error' # Null) <=> LastFailed(b)]_vars

\* C22 (amended): as stated for a batch over a list that is not empty; a
\* batch over an empty list starts no task and leaves the error as it was.
C22_LastTaskOrUntouched ==
  [][/\ ErrorSetByFailureOnly
     /\ last'.op = "handleRunAllAgents" => error' = error
     /\ last'.op = "batchEnd" =>
          \A b \in batches \ batches' :
            IF b.agents = <<>>
              THEN error' = error
              ELSE (error' # Null) <=> LastFailed(b)]_vars

\* C22 witness: a batch of two tasks has ended whose first task failed and
\* whose second task succeeded: no error is shown.
C22_Witness ==
  /\ last.op = "batchEnd"
  /\ Len(agents) = 2
  /\ agents[1].id # agents[2].id
  /\ agents[1].output = ""
  /\ agents[2].output \in {ResultOf(text) : text \in ResponseTexts}
  /\ error = Null

====
